---- MODULE Spec2Model ----
(***************************************************************************)
(* Word riddle game (src/public/src/App.js): the puzzle engine of the App  *)
(* component, its helpers and the word-list handlers, as a state machine.  *)
(*                                                                         *)
(* Conventions                                                             *)
(*  - a string of the program is a sequence of characters; a character is  *)
(*    a one-token TLA+ string.  Cyrillic letters, which the module text    *)
(*    cannot hold, are written as ASCII tokens ("cy-a" / "CY-A", ...), the *)
(*    guillemets as "<<" and ">>", the backtick as "backtick".             *)
(*  - sequences are 1-based: bank position p here is index p-1 in the     *)
(*    code.  The variable index keeps the code's 0-based value.            *)
(*  - Math.random() is a draw r = seed / RandDenom; the same draw is used  *)
(*    for every call made by one handler run.  The game (Spec) is explored *)
(*    for the draws of RandDraws, bank generation alone (BankSpec) for the *)
(*    draws of BankDraws.                                                  *)
(*  - a file is its name and its text, a sequence of characters that the   *)
(*    parsers split and trim as the code does; for a .json file it is what *)
(*    JSON.parse makes of the text.                                        *)
(*  - IngestSpec uploads generated text files one after the other;         *)
(*    AsyncSpec separates the start of a file read from its completion.    *)
(***************************************************************************)
EXTENDS Integers, Sequences, FiniteSets, TLC

VARIABLES
    items,      \* useState: the active word list (line 21)
    index,      \* useState: 0-based index of the current item (line 22)
    picked,     \* useState: sequence of [ch, i] (line 23)
    shuffled,   \* useState: the letter bank, "" marks an empty tile (line 24)
    status,     \* useState: "idle" | "correct" | "wrong" (line 25)
    revealed,   \* useState: number of hints taken (line 26)
    store,      \* sessionStorage["custom-words"]: NoStore or Stored(list)
    pending,    \* the files whose FileReader has not fired onload yet (line 143)
    nShuffles   \* history: shuffle() runs since the bank was generated

vars == <<items, index, picked, shuffled, status, revealed, store, pending, nShuffles>>

----------------------------------------------------------------------------
(* Bounds of the model *)

\* shuffle() runs explored per generated bank (shuffleBank and reset)
MaxShuffles == 1
\* the built-in words are cut to their first MaxWordLen characters
MaxWordLen == 1
\* length of the pick runs the pick/remove law is evaluated on
MaxRun == 2

----------------------------------------------------------------------------
(* Characters *)

LatinUpper == <<"A","B","C","D","E","F","G","H","I","J","K","L","M",
                "N","O","P","Q","R","S","T","U","V","W","X","Y","Z">>
LatinLower == <<"a","b","c","d","e","f","g","h","i","j","k","l","m",
                "n","o","p","q","r","s","t","u","v","w","x","y","z">>
CyrLower == <<"cy-a","cy-b","cy-v","cy-g","cy-d","cy-e","cy-yo","cy-zh","cy-z",
              "cy-i","cy-j","cy-k","cy-l","cy-m","cy-n","cy-o","cy-p","cy-r",
              "cy-s","cy-t","cy-u","cy-f","cy-h","cy-c","cy-ch","cy-sh",
              "cy-shch","cy-hard","cy-y","cy-soft","cy-eh","cy-yu","cy-ya">>
CyrUpper == <<"CY-A","CY-B","CY-V","CY-G","CY-D","CY-E","CY-YO","CY-ZH","CY-Z",
              "CY-I","CY-J","CY-K","CY-L","CY-M","CY-N","CY-O","CY-P","CY-R",
              "CY-S","CY-T","CY-U","CY-F","CY-H","CY-C","CY-CH","CY-SH",
              "CY-SHCH","CY-HARD","CY-Y","CY-SOFT","CY-EH","CY-YU","CY-YA">>

Range(s) == {s[k] : k \in 1..Len(s)}

LowerAll == LatinLower \o CyrLower
UpperAll == LatinUpper \o CyrUpper
LowerSet == Range(LowerAll)
UpperSet == Range(UpperAll)
LetterSet == LowerSet \cup UpperSet

IndexOf(s, c) == CHOOSE k \in 1..Len(s) : s[k] = c

UpperOf == [c \in LowerSet |-> UpperAll[IndexOf(LowerAll, c)]]
LowerOf == [c \in UpperSet |-> LowerAll[IndexOf(UpperAll, c)]]

\* String.prototype.toUpperCase / toLowerCase on one character
toUpperCase(c) == IF c \in LowerSet THEN UpperOf[c] ELSE c
toLowerCase(c) == IF c \in UpperSet THEN LowerOf[c] ELSE c

\* the letter class of displayWord: Latin and Cyrillic letters, both cases
isLetter(c) == c \in LetterSet

\* the whitespace class of the regular expressions
Whitespace == {" ", "\t", "\r", "\n"}
\* the punctuation class that normalizeWord strips
StrippedPunct == {"-", "_", "'", "backtick", ".", ",", "!", "?", "<<", ">>", "(", ")"}

MapSeq(s, F(_)) == [k \in 1..Len(s) |-> F(s[k])]

RECURSIVE TrimLeft(_)
TrimLeft(s) == IF s # <<>> /\ Head(s) \in Whitespace THEN TrimLeft(Tail(s)) ELSE s

RECURSIVE TrimRight(_)
TrimRight(s) ==
    IF s # <<>> /\ s[Len(s)] \in Whitespace THEN TrimRight(SubSeq(s, 1, Len(s) - 1)) ELSE s

\* String.prototype.trim
trim(s) == TrimRight(TrimLeft(s))

\* normalizeWord (line 312)
normalizeWord(w) ==
    LET noSpace == SelectSeq(w, LAMBDA c : c \notin Whitespace)
        noPunct == SelectSeq(noSpace, LAMBDA c : c \notin StrippedPunct)
    IN  MapSeq(noPunct, toLowerCase)

----------------------------------------------------------------------------
(* Randomness *)

\* ALPHA of makeLetterBank (line 318): 33 Cyrillic lower-case, 26 Latin upper-case
ALPHA == CyrLower \o LatinUpper

\* Math.random() returns seed / RandDenom, 0 <= seed < RandDenom
RandDenom == Len(ALPHA)

\* the draw the handlers of the game see: 33/59, which makes every filler "A"
\* and every shuffle the same non-trivial permutation
RandDraws == {33}

\* Math.floor(Math.random() * n)
RandomBelow(seed, n) == (seed * n) \div RandDenom

Swap(a, p, q) == [a EXCEPT ![p] = a[q], ![q] = a[p]]

\* the loop of shuffle (lines 330-333); i is the code's 0-based loop index
RECURSIVE ShuffleLoop(_, _, _)
ShuffleLoop(a, i, seed) ==
    IF i <= 0 THEN a
    ELSE ShuffleLoop(Swap(a, i + 1, RandomBelow(seed, i + 1) + 1), i - 1, seed)

\* shuffle (line 328): Fisher-Yates on a copy
shuffle(arr, seed) == ShuffleLoop(arr, Len(arr) - 1, seed)

----------------------------------------------------------------------------
(* Bank generation *)

BankMin == 12
BankMax == 16
BankExtra == 6

Max(a, b) == IF a >= b THEN a ELSE b
Min(a, b) == IF a <= b THEN a ELSE b

\* size of makeLetterBank (line 320)
BankSize(n) == Max(BankMin, Min(BankMax, n + BankExtra))

\* Array.prototype.slice(0, n)
SliceTo(s, n) == SubSeq(s, 1, Min(n, Len(s)))

\* makeLetterBank (line 316)
makeLetterBank(normTarget, seed) ==
    LET base == MapSeq(normTarget, toUpperCase)
        size == BankSize(Len(base))
        r    == ALPHA[RandomBelow(seed, Len(ALPHA)) + 1]
        full == IF Len(base) < size
                THEN base \o [k \in 1..(size - Len(base)) |-> r]
                ELSE base
    IN  SliceTo(shuffle(full, seed), size)

----------------------------------------------------------------------------
(* Slots, display and candidate *)

\* displayWord with every character taken for a letter
displayWord_allLetters(target, rev) ==
    [k \in 1..Len(target) |->
        [char |-> target[k], isLetter |-> TRUE, revealed |-> (k - 1) < rev]]

\* displayWord (line 33): position k here is index k-1 of the code
displayWord(target, rev) ==
    [k \in 1..Len(target) |->
        [char |-> target[k], isLetter |-> isLetter(target[k]), revealed |-> (k - 1) < rev]]

\* the letter slots: displayWord filtered on isLetter (lines 54-56, 93-95)
LetterSlots(dw) == {k \in 1..Len(dw) : dw[k].isLetter}

\* the walk of rebuildWithPunctuation (lines 359-366); pos is 0-based as in the code
RECURSIVE RebuildFrom(_, _, _, _)
RebuildFrom(letters, dw, k, pos) ==
    IF k > Len(dw) THEN <<>>
    ELSE IF ~dw[k].isLetter THEN <<dw[k].char>> \o RebuildFrom(letters, dw, k + 1, pos)
    ELSE IF dw[k].revealed THEN <<dw[k].char>> \o RebuildFrom(letters, dw, k + 1, pos)
    ELSE (IF pos + 1 <= Len(letters) /\ letters[pos + 1] # ""
          THEN <<letters[pos + 1]>> ELSE <<>>)
         \o RebuildFrom(letters, dw, k + 1, pos + 1)

\* rebuildWithPunctuation (line 351)
rebuildWithPunctuation(pk, dw, revealedCount) ==
    RebuildFrom([k \in 1..Len(pk) |-> pk[k].ch], dw, 1, 0)

\* renderPickedChar (line 337): the picked character shown in slot idx
renderPickedChar(dw, pk, revealedCount, idx) ==
    LET logicalIndex == IF dw[idx].isLetter
                        THEN Cardinality({k \in LetterSlots(dw) : k < idx})
                        ELSE -1
        at == logicalIndex - revealedCount
    IN  IF at >= 0 /\ at < Len(pk) THEN pk[at + 1].ch ELSE ""

\* what the slot at idx shows (lines 227-234)
SlotShown(target, dw, pk, rev, idx) ==
    IF dw[idx].isLetter
    THEN (IF (idx - 1) < rev THEN target[idx] ELSE renderPickedChar(dw, pk, rev, idx))
    ELSE dw[idx].char

----------------------------------------------------------------------------
(* Word lists *)

\* an item's hint is a string (a sequence of characters) or undefined; NoHint is
\* the value undefined, which no string equals
NoHint == <<"undefined">>

\* the words of defaultSet (lines 296-302)
DefaultWords == << <<"D","R","A","G","O","N">>, <<"M","O","U","S","E">>,
                   <<"F","O","R","E","S","T">>, <<"F","R","I","E","N","D">>,
                   <<"S","I","N","G">> >>
DefaultHints == << <<"mythical creature">>, <<"small animal">>, <<"many trees">>,
                   <<"buddy">>, <<"make music with your voice">> >>

\* defaultSet (line 296), each word cut to MaxWordLen characters
defaultSet ==
    [k \in 1..Len(DefaultWords) |->
        [word |-> SliceTo(DefaultWords[k], MaxWordLen), hint |-> DefaultHints[k]]]

\* JSON.stringify of a word list (line 135): a property whose value is
\* undefined is left out of its object
stringify(list) ==
    [k \in 1..Len(list) |->
        IF "hint" \in DOMAIN list[k] /\ list[k].hint # NoHint
        THEN [word |-> list[k].word, hint |-> list[k].hint]
        ELSE [word |-> list[k].word]]

\* sessionStorage: <<>> when the key "custom-words" is absent, <<text>> when it
\* holds the text that JSON.stringify wrote
NoStore == <<>>
Stored(list) == <<stringify(list)>>

\* loadItems (line 304): JSON.parse gives back the objects that were written
loadItems(st) == IF st # NoStore THEN st[1] ELSE defaultSet

\* String.prototype.split on a set of one-character separators, from
\* position from on: the piece up to the next separator, then the rest; a
\* string without separator is one piece
RECURSIVE SplitFrom(_, _, _)
SplitFrom(s, seps, from) ==
    LET e == CHOOSE k \in from..(Len(s) + 1) :
                 /\ k = Len(s) + 1 \/ s[k] \in seps
                 /\ \A j \in from..(k - 1) : s[j] \notin seps
    IN  IF e = Len(s) + 1 THEN <<SubSeq(s, from, Len(s))>>
        ELSE <<SubSeq(s, from, e - 1)>> \o SplitFrom(s, seps, e + 1)

split(s, seps) == SplitFrom(s, seps, 1)

\* split(/\r?\n/): a "\r" that stands right before a "\n" belongs to the
\* separator
SplitLines(txt) ==
    LET pieces == split(txt, {"\n"})
    IN  [k \in 1..Len(pieces) |->
            IF k < Len(pieces) /\ pieces[k] # <<>> /\ pieces[k][Len(pieces[k])] = "\r"
            THEN SubSeq(pieces[k], 1, Len(pieces[k]) - 1)
            ELSE pieces[k]]

\* parseTXT (line 370)
parseTXT(txt) ==
    LET lines == SelectSeq(MapSeq(SplitLines(txt), trim), LAMBDA l : l # <<>>)
        item(line) ==
            LET parts == split(line, {"|"})
            IN  [word |-> trim(parts[1]),
                 hint |-> IF Len(parts) >= 2 /\ parts[2] # <<>>
                          THEN trim(parts[2]) ELSE NoHint]
    IN  SelectSeq(MapSeq(lines, item), LAMBDA x : Len(x.word) > 0)

\* parseCSV (line 382)
parseCSV(txt) ==
    LET lines == SelectSeq(SplitLines(txt), LAMBDA l : l # <<>>)
        row(l) == MapSeq(split(l, {",", ";", "\t"}), trim)
        rows  == MapSeq(lines, row)
        maybeHeader == /\ rows # <<>>
                       /\ MapSeq(rows[1][1], toLowerCase) = <<"w","o","r","d">>
        start == IF maybeHeader THEN 2 ELSE 1
        item(r) == [word |-> r[1], hint |-> IF Len(r) >= 2 THEN r[2] ELSE NoHint]
    IN  MapSeq(SelectSeq(SubSeq(rows, start, Len(rows)), LAMBDA r : r[1] # <<>>), item)

\* What JSON.parse makes of the text of a .json file (line 121):
\*   kind "malformed": JSON.parse throws;
\*   kind "object":    a value that is not an array;
\*   kind "array":     an array whose elements are elems; an element is null
\*                     (isNull) or an object with the properties word and hint,
\*                     <<>> standing for a missing word, NoHint for a missing hint.
NoJson == [kind |-> "none", elems |-> <<>>]

\* whether the map callback of line 124 throws: x.word on null
JsonThrows(j) ==
    \/ j.kind = "malformed"
    \/ j.kind = "array" /\ \E k \in 1..Len(j.elems) : j.elems[k].isNull

\* the items of a JSON array (lines 122-126)
JsonItems(j) ==
    IF j.kind # "array" THEN <<>>
    ELSE LET item(x) == [word |-> trim(x.word),
                         hint |-> IF x.hint # NoHint /\ x.hint # <<>> THEN x.hint ELSE NoHint]
         IN  SelectSeq(MapSeq(j.elems, item), LAMBDA x : Len(x.word) > 0)

\* ext of onUpload (line 114)
ExtOf(name) ==
    LET parts == split(name, {"."})
    IN  MapSeq(parts[Len(parts)], toLowerCase)

\* whether the try block of reader.onload throws before line 132, computed
\* from the file
ThrowsFile(file) == ExtOf(file.name) = <<"j","s","o","n">> /\ JsonThrows(file.json)

\* parsed of reader.onload (lines 118-131), computed from the file
ParseFile(file) ==
    IF ExtOf(file.name) = <<"j","s","o","n">> THEN JsonItems(file.json)
    ELSE IF ExtOf(file.name) = <<"c","s","v">> THEN parseCSV(file.text)
    ELSE parseTXT(file.text)

MaxItems == 20

\* the loop of dedupe (lines 398-404)
RECURSIVE DedupeLoop(_, _, _)
DedupeLoop(arr, seen, out) ==
    IF arr = <<>> THEN out
    ELSE LET it  == Head(arr)
             key == normalizeWord(it.word)
         IN  IF key = <<>> THEN DedupeLoop(Tail(arr), seen, out)
             ELSE IF key \in seen THEN DedupeLoop(Tail(arr), seen, out)
             ELSE DedupeLoop(Tail(arr), seen \cup {key},
                             Append(out, [word |-> MapSeq(it.word, toUpperCase),
                                          hint |-> it.hint]))

\* dedupe run on the first MaxItems entries only
dedupe_capFirst(arr) == DedupeLoop(SliceTo(arr, MaxItems), {}, <<>>)

\* dedupe (line 395)
dedupe(arr) == DedupeLoop(arr, {}, <<>>)

\* The files the player uploads in the game
UploadFiles ==
    { \* one line "ab|first"
      [name |-> <<"o","n","e",".","t","x","t">>, json |-> NoJson,
       text |-> <<"a","b","|","f","i","r","s","t">>],
      \* three rows "A-b;one", "aB,again", "BA,second", the name in upper case
      [name |-> <<"T","W","O",".","C","S","V">>, json |-> NoJson,
       text |-> <<"A","-","b",";","o","n","e","\r","\n",
                  "a","B",",","a","g","a","i","n","\n",
                  "B","A",",","s","e","c","o","n","d","\n">>],
      \* one line "-": a word, but its normalised key is empty
      [name |-> <<"d","a","s","h",".","t","x","t">>, json |-> NoJson,
       text |-> <<"-","\n">>],
      \* the header row alone
      [name |-> <<"h","e","a","d","e","r",".","c","s","v">>, json |-> NoJson,
       text |-> <<"w","o","r","d",",","h","i","n","t","\n">>],
      \* a text that JSON.parse rejects
      [name |-> <<"b","a","d",".","j","s","o","n">>, text |-> <<>>,
       json |-> [kind |-> "malformed", elems |-> <<>>]],
      \* {"word": "ab"}: a JSON value that is not an array
      [name |-> <<"o","b","j",".","j","s","o","n">>, text |-> <<>>,
       json |-> [kind |-> "object", elems |-> <<>>]],
      \* [{"word": " ab", "hint": "first"}, {"hint": "lost"}, {"word": "Ab"}]
      [name |-> <<"l","i","s","t",".","j","s","o","n">>, text |-> <<>>,
       json |-> [kind |-> "array",
                 elems |-> << [isNull |-> FALSE, word |-> <<" ","a","b">>,
                               hint |-> <<"f","i","r","s","t">>],
                              [isNull |-> FALSE, word |-> <<>>,
                               hint |-> <<"l","o","s","t">>],
                              [isNull |-> FALSE, word |-> <<"A","b">>,
                               hint |-> NoHint] >>]],
      \* [{"word": "ab"}, null]: the map callback throws on null
      [name |-> <<"n","u","l","l",".","j","s","o","n">>, text |-> <<>>,
       json |-> [kind |-> "array",
                 elems |-> << [isNull |-> FALSE, word |-> <<"a","b">>, hint |-> NoHint],
                              [isNull |-> TRUE, word |-> <<>>, hint |-> NoHint] >>]] }

(* Generated text files, for the ingestion on its own (IngestSpec) *)

\* the longest generated file, in lines
MaxLines == 25
\* the generated files start at letter 1 + o of the alphabet, o in 0..MaxOffset
MaxOffset == 2

LinePatterns == {"plain", "pairs", "dashed"}

\* line k of a generated file, "word|hint": its hint is the k-th upper-case
\* letter; its word is, for the pattern
\*   plain:  the (o+k)-th lower-case letter;
\*   pairs:  every letter twice, first in lower case, then in upper case;
\*   dashed: as plain, but every fifth line has the word "-".
LineOf(o, k, pat) ==
    LET w == IF pat = "pairs"
             THEN (IF k % 2 = 1 THEN LowerAll[o + (k + 1) \div 2]
                   ELSE UpperAll[o + (k + 1) \div 2])
             ELSE IF pat = "dashed" /\ k % 5 = 0 THEN "-"
             ELSE LowerAll[o + k]
    IN  <<w, "|", UpperAll[k], "\n">>

RECURSIVE LinesText(_, _, _)
LinesText(o, n, pat) ==
    IF n = 0 THEN <<>> ELSE LinesText(o, n - 1, pat) \o LineOf(o, n, pat)

IngestFiles ==
    { [name |-> <<"w","o","r","d","s",".","t","x","t">>, json |-> NoJson,
       text |-> LinesText(o, n, pat)] :
         o \in 0..MaxOffset, n \in 1..MaxLines, pat \in LinePatterns }

\* what reader.onload computes from a file before it sets anything: whether
\* it throws, parsed (lines 118-131) and unique (line 133)
ReadFile(file) ==
    [throws |-> ThrowsFile(file),
     parsed |-> IF ThrowsFile(file) THEN <<>> ELSE ParseFile(file),
     unique |-> IF ThrowsFile(file) THEN <<>>
                ELSE SliceTo(dedupe(ParseFile(file)), MaxItems)]

\* the same for the files of the game and for the generated files, computed once
ReadOfUploads == [file \in UploadFiles |-> ReadFile(file)]
ReadOfIngest == [file \in IngestFiles |-> ReadFile(file)]

ReadOf(file) ==
    IF file \in UploadFiles THEN ReadOfUploads[file]
    ELSE IF file \in IngestFiles THEN ReadOfIngest[file]
    ELSE ReadFile(file)

ReadThrows(file) == ReadOf(file).throws
ParsedOf(file) == ReadOf(file).parsed
Installed(file) == ReadOf(file).unique

----------------------------------------------------------------------------
(* Derived values of a render.  A state of the component is a record s with  *)
(* the fields items, index, picked, shuffled, status, revealed and store.    *)

HasCurrent(its, idx) == idx + 1 <= Len(its)

\* target (line 30)
TargetOf(its, idx) == IF HasCurrent(its, idx) THEN trim(its[idx + 1].word) ELSE <<>>

\* normalizedTarget (line 31)
NormTargetOf(its, idx) == normalizeWord(TargetOf(its, idx))

\* slots.length of onTileClick and hint (lines 54-56, 93-95)
SlotCount(s) ==
    Cardinality(LetterSlots(displayWord(TargetOf(s.items, s.index), s.revealed)))

\* number of occurrences of c in the sequence s
Count(s, c) == Cardinality({k \in 1..Len(s) : s[k] = c})

\* the letters of a word, in order
LettersOf(w) == SelectSeq(w, isLetter)
\* the characters of the picked stack, in order
PickedChars(pk) == [k \in 1..Len(pk) |-> pk[k].ch]
\* equal as strings, ignoring case
SameIgnoringCase(a, b) ==
    /\ Len(a) = Len(b)
    /\ \A k \in 1..Len(a) : toLowerCase(a[k]) = toLowerCase(b[k])

----------------------------------------------------------------------------
(* Handlers, as functions from the state they run in to the state they leave *)

\* the bank the effect installs (lines 44-45)
FreshBank(normTarget, seed) == shuffle(makeLetterBank(normTarget, seed), seed)

\* whether the effect runs after a render: a dependency changed (line 49)
\* and the early return is not taken (line 43)
EffectRuns(prev, s) ==
    /\ \/ s.index # prev.index
       \/ NormTargetOf(s.items, s.index) # NormTargetOf(prev.items, prev.index)
    /\ HasCurrent(s.items, s.index)

\* React.useEffect on [index, normalizedTarget] (lines 42-49): prev is the
\* state of the previous render, s the state the handler has set
useEffect(prev, s, seed) ==
    IF EffectRuns(prev, s)
    THEN [s EXCEPT !.shuffled = FreshBank(NormTargetOf(s.items, s.index), seed),
                   !.picked = <<>>,
                   !.status = "idle",
                   !.revealed = 0]
    ELSE s

\* onTileClick without the early return on the status
onTileClick_unlocked(s, i) ==
    IF Len(s.picked) + s.revealed >= SlotCount(s) THEN s
    ELSE [s EXCEPT !.picked = Append(s.picked, [ch |-> s.shuffled[i], i |-> i]),
                   !.shuffled = [bi \in 1..Len(s.shuffled) |->
                                    IF bi = i THEN "" ELSE s.shuffled[bi]]]

\* onTileClick (line 51) on the tile at position i
onTileClick(s, i) ==
    IF s.status # "idle" THEN s
    ELSE IF Len(s.picked) + s.revealed >= SlotCount(s) THEN s
    ELSE [s EXCEPT !.picked = Append(s.picked, [ch |-> s.shuffled[i], i |-> i]),
                   !.shuffled = [bi \in 1..Len(s.shuffled) |->
                                    IF bi = i THEN "" ELSE s.shuffled[bi]]]

\* the button of a bank tile (lines 248-262): disabled on an empty tile, else
\* its click runs onTileClick
TileButton(s, i) == IF s.shuffled[i] = "" THEN s ELSE onTileClick(s, i)

\* removeLast without the early return on the status
removeLast_anyStatus(s) ==
    IF Len(s.picked) = 0 THEN s
    ELSE LET last == s.picked[Len(s.picked)]
         IN  [s EXCEPT !.picked = SubSeq(s.picked, 1, Len(s.picked) - 1),
                       !.shuffled = [bi \in 1..Len(s.shuffled) |->
                                        IF bi = last.i THEN last.ch ELSE s.shuffled[bi]]]

\* removeLast putting back the first pick instead of the last
removeLast_first(s) ==
    IF Len(s.picked) = 0 \/ s.status # "idle" THEN s
    ELSE LET last == s.picked[1]
         IN  [s EXCEPT !.picked = SubSeq(s.picked, 1, Len(s.picked) - 1),
                       !.shuffled = [bi \in 1..Len(s.shuffled) |->
                                        IF bi = last.i THEN last.ch ELSE s.shuffled[bi]]]

\* removeLast (line 65)
removeLast(s) ==
    IF Len(s.picked) = 0 \/ s.status # "idle" THEN s
    ELSE LET last == s.picked[Len(s.picked)]
         IN  [s EXCEPT !.picked = SubSeq(s.picked, 1, Len(s.picked) - 1),
                       !.shuffled = [bi \in 1..Len(s.shuffled) |->
                                        IF bi = last.i THEN last.ch ELSE s.shuffled[bi]]]

\* check comparing the picked letters with the target's as multisets
check_anagram(s) ==
    IF ~HasCurrent(s.items, s.index) THEN s
    ELSE LET want == MapSeq(LettersOf(TargetOf(s.items, s.index)), toLowerCase)
             have == MapSeq(PickedChars(s.picked), toLowerCase)
             ok   == /\ Len(want) = Len(have)
                     /\ \A c \in Range(want) :
                           Cardinality({k \in 1..Len(want) : want[k] = c})
                             = Cardinality({k \in 1..Len(have) : have[k] = c})
         IN  [s EXCEPT !.status = IF ok THEN "correct" ELSE "wrong"]

\* check (line 72)
check(s) ==
    IF ~HasCurrent(s.items, s.index) THEN s
    ELSE LET tgt      == TargetOf(s.items, s.index)
             userFull == rebuildWithPunctuation(s.picked, displayWord(tgt, s.revealed),
                                                s.revealed)
             ok       == normalizeWord(userFull) = normalizeWord(tgt)
         IN  [s EXCEPT !.status = IF ok THEN "correct" ELSE "wrong"]

\* next (line 87)
next(s) ==
    [s EXCEPT !.index = IF s.index + 1 < Len(s.items) THEN s.index + 1 ELSE 0]

\* hint starting over from 0 once every letter is revealed
hint_wrapping(s) ==
    IF s.revealed >= SlotCount(s) THEN [s EXCEPT !.revealed = 0]
    ELSE [s EXCEPT !.revealed = s.revealed + 1]

\* hint (line 91)
hint(s) ==
    IF s.revealed >= SlotCount(s) THEN s
    ELSE [s EXCEPT !.revealed = s.revealed + 1]

\* shuffleBank (line 100)
shuffleBank(s, seed) == [s EXCEPT !.shuffled = shuffle(s.shuffled, seed)]

\* reset shuffling the whole bank, its empty tiles included
reset_keepEmpty(s, seed) ==
    [s EXCEPT !.picked = <<>>,
              !.status = "idle",
              !.revealed = 0,
              !.shuffled = shuffle(s.shuffled, seed)]

\* reset (line 104)
reset(s, seed) ==
    [s EXCEPT !.picked = <<>>,
              !.status = "idle",
              !.revealed = 0,
              !.shuffled = shuffle(SelectSeq(s.shuffled, LAMBDA c : c # ""), seed)]

\* reader.onload setting the index before the file is read
onUpload_indexFirst(s, file) ==
    LET read == ReadOf(file)
    IN  IF read.throws THEN [s EXCEPT !.index = 0]
        ELSE IF Len(read.parsed) = 0 THEN [s EXCEPT !.index = 0]
        ELSE [s EXCEPT !.items = read.unique, !.store = Stored(read.unique), !.index = 0]

\* reader.onload of onUpload (lines 116-142) for the chosen file: an exception
\* (lines 121-132) is caught and reported, and nothing is set
onUpload(s, file) ==
    LET read == ReadOf(file)
    IN  IF read.throws THEN s
        ELSE IF Len(read.parsed) = 0 THEN s
        ELSE [s EXCEPT !.items = read.unique, !.store = Stored(read.unique), !.index = 0]

\* clearSet leaving the key in the store
clearSet_keepStore(s) == [s EXCEPT !.items = defaultSet, !.index = 0]

\* clearSet (line 146)
clearSet(s) == [s EXCEPT !.store = NoStore, !.items = defaultSet, !.index = 0]

----------------------------------------------------------------------------
(* State machine *)

\* the state of the component
App ==
    [items |-> items, index |-> index, picked |-> picked, shuffled |-> shuffled,
     status |-> status, revealed |-> revealed, store |-> store]

\* the component moves to state t
Become(t) ==
    /\ items' = t.items
    /\ index' = t.index
    /\ picked' = t.picked
    /\ shuffled' = t.shuffled
    /\ status' = t.status
    /\ revealed' = t.revealed
    /\ store' = t.store

\* the stores a session can start with: empty, or left by an earlier upload
InitStores ==
    {NoStore} \cup {Stored(Installed(f)) :
                       f \in {g \in UploadFiles : ~ReadThrows(g) /\ ParsedOf(g) # <<>>}}

\* the mount: useState initialisers (lines 21-26), then the first effect
Mounted(st, seed) ==
    LET its == loadItems(st)
    IN  [items |-> its, index |-> 0, picked |-> <<>>,
         shuffled |-> IF HasCurrent(its, 0) THEN FreshBank(NormTargetOf(its, 0), seed)
                      ELSE <<>>,
         status |-> "idle", revealed |-> 0, store |-> st]

Init ==
    /\ \E st \in InitStores : \E seed \in RandDraws :
          /\ items = Mounted(st, seed).items
          /\ index = Mounted(st, seed).index
          /\ picked = Mounted(st, seed).picked
          /\ shuffled = Mounted(st, seed).shuffled
          /\ status = Mounted(st, seed).status
          /\ revealed = Mounted(st, seed).revealed
          /\ store = Mounted(st, seed).store
    /\ pending = {}
    /\ nShuffles = 0

\* the tiles the player clicks: an enabled button (line 255), and of the tiles
\* that hold the same character the first one
PickChoices(bank) ==
    {i \in 1..Len(bank) : bank[i] # "" /\ \A j \in 1..(i - 1) : bank[j] # bank[i]}

\* a handler that sets neither the list nor the index: no dependency of the
\* effect changes
Keeps(t) == Become(t) /\ UNCHANGED nShuffles

\* a handler that has set the list or the index to those of t: the render that
\* follows runs the effect when a dependency changed
RerenderWith(t, draws) ==
    IF EffectRuns(App, t)
    THEN /\ \E seed \in draws : Become(useEffect(App, t, seed))
         /\ nShuffles' = 0
    ELSE Keeps(t)

Rerender(t) == RerenderWith(t, RandDraws)

\* In the game a file read is taken with its completion: onUpload starts the
\* read (line 143) and reader.onload runs before any other handler.  Starting a
\* read sets nothing, and onload uses nothing of the render it was started in,
\* so the states reached are those reached when the two are apart (AsyncSpec).
Click == (\E i \in PickChoices(shuffled) : Keeps(TileButton(App, i))) /\ UNCHANGED pending
Remove == Keeps(removeLast(App)) /\ UNCHANGED pending
Check == Keeps(check(App)) /\ UNCHANGED pending
Hint == Keeps(hint(App)) /\ UNCHANGED pending
Shuffle ==
    /\ nShuffles < MaxShuffles
    /\ \E seed \in RandDraws : Become(shuffleBank(App, seed))
    /\ nShuffles' = nShuffles + 1
    /\ UNCHANGED pending
Reset ==
    /\ nShuffles < MaxShuffles
    /\ \E seed \in RandDraws : Become(reset(App, seed))
    /\ nShuffles' = nShuffles + 1
    /\ UNCHANGED pending
GoNext == Rerender(next(App)) /\ UNCHANGED pending
Upload == (\E file \in UploadFiles : Rerender(onUpload(App, file))) /\ UNCHANGED pending
ClearSet == Rerender(clearSet(App)) /\ UNCHANGED pending

Next ==
    \/ Click
    \/ Remove
    \/ Check
    \/ Hint
    \/ Shuffle
    \/ Reset
    \/ GoNext
    \/ Upload
    \/ ClearSet

Spec == Init /\ [][Next]_vars

----------------------------------------------------------------------------
(* Properties *)

locked == status \in {"correct", "wrong"}

\* C1 (as claimed): once the status is Correct or Wrong, no pick, removeLast,
\* hint, check or shuffle step changes it.
C1_StatusLock ==
    [][(locked /\ (Click \/ Remove \/ Hint \/ Check \/ Shuffle)) => status' = status]_vars

\* the enabled tiles that hold the last letter of the target
LastLetterTiles(s) ==
    LET letters == LettersOf(TargetOf(s.items, s.index))
    IN  {i \in 1..Len(s.shuffled) :
            /\ s.shuffled[i] # ""
            /\ letters # <<>>
            /\ toLowerCase(s.shuffled[i]) = toLowerCase(letters[Len(letters)])}

\* the player has picked the first n-1 letters of the n-letter target (n >= 2),
\* in order, without a hint, and has not checked yet
OneShort(s) ==
    LET letters == LettersOf(TargetOf(s.items, s.index))
    IN  /\ HasCurrent(s.items, s.index)
        /\ s.status = "idle"
        /\ s.revealed = 0
        /\ Len(letters) >= 2
        /\ SameIgnoringCase(PickedChars(s.picked), SubSeq(letters, 1, Len(letters) - 1))

\* C2 (as claimed): one letter short, check() yields Wrong; picking the missing
\* last letter and calling check() again yields Correct.
C2_ScenarioB ==
    OneShort(App) =>
        /\ check(App).status = "wrong"
        /\ \A i \in LastLetterTiles(App) :
              check(onTileClick(check(App), i)).status = "correct"

\* C2 (amended): one letter short, check() yields Wrong; the pick of the missing
\* last letter that follows is ignored, and check() again yields Wrong.
C2_ScenarioBLocked ==
    OneShort(App) =>
        /\ check(App).status = "wrong"
        /\ \A i \in LastLetterTiles(App) :
              /\ onTileClick(check(App), i) = check(App)
              /\ check(onTileClick(check(App), i)).status = "wrong"

\* C2 witness: the state after the first check of the scenario, with the
\* missing last letter still on an enabled tile
C2_Witness ==
    /\ status = "wrong"
    /\ OneShort([App EXCEPT !.status = "idle"])
    /\ Len(picked) >= 1
    /\ LastLetterTiles(App) # {}

\* C3: with no hint used, check() yields Correct exactly when the picked tiles
\* spell the letters of the target in order (non-letters of the target are not
\* slots), and a pick is accepted exactly while fewer than letterCount(target)
\* tiles are picked.
C3_SpellingIsCorrect ==
    (HasCurrent(items, index) /\ revealed = 0 /\ status = "idle") =>
        LET letters == LettersOf(TargetOf(items, index))
        IN  /\ Len(picked) <= Len(letters)
            /\ (check(App).status = "correct")
                  <=> SameIgnoringCase(PickedChars(picked), letters)
            /\ \A i \in PickChoices(shuffled) :
                  (onTileClick(App, i) # App) <=> (Len(picked) < Len(letters))

\* C3 witness: a target with an embedded hyphen found Correct after exactly
\* letterCount picks and no hint
C3_Witness ==
    /\ status = "correct"
    /\ revealed = 0
    /\ \E k \in 1..Len(TargetOf(items, index)) : TargetOf(items, index)[k] = "-"
    /\ Len(picked) = Len(LettersOf(TargetOf(items, index)))
    /\ Len(picked) = 2

\* the character the candidate of check() holds for the letter slot at p: the
\* target's for a revealed slot, else the pick that falls to the slot
CandidateAt(pk, dw, p) ==
    IF dw[p].revealed THEN dw[p].char
    ELSE LET before == Cardinality({j \in LetterSlots(dw) : j < p /\ ~dw[j].revealed})
         IN  IF before < Len(pk) THEN pk[before + 1].ch ELSE ""

\* C4: check() yields Correct only if every letter slot of the target is filled,
\* by reveal or by a pick, with the target's letter of that position (ignoring
\* case): right letters in another order, or a missing letter, yield Wrong.
C4_CorrectOnlyIfFilled ==
    (HasCurrent(items, index) /\ check(App).status = "correct") =>
        LET tgt == TargetOf(items, index)
            dw  == displayWord(tgt, revealed)
        IN  \A p \in LetterSlots(dw) :
                /\ CandidateAt(picked, dw, p) # ""
                /\ toLowerCase(CandidateAt(picked, dw, p)) = toLowerCase(tgt[p])

\* C4 witness: check() has answered Wrong to the target's letters picked in
\* another order
C4_Witness ==
    /\ status = "wrong"
    /\ revealed = 0
    /\ Len(picked) = 2
    /\ LET letters == LettersOf(TargetOf(items, index))
       IN  /\ Len(letters) = 2
           /\ toLowerCase(picked[1].ch) = toLowerCase(letters[2])
           /\ toLowerCase(picked[2].ch) = toLowerCase(letters[1])
           /\ toLowerCase(letters[1]) # toLowerCase(letters[2])

\* the first n letter positions of a displayed word
FirstLetterSlots(dw, n) ==
    {k \in LetterSlots(dw) : Cardinality({j \in LetterSlots(dw) : j < k}) < n}

\* C5 (as claimed): after k accepted hints the letter positions treated as
\* revealed are exactly the first k letter positions of the target.
C5_RevealsFirstLetters ==
    HasCurrent(items, index) =>
        LET dw == displayWord(TargetOf(items, index), revealed)
        IN  {k \in LetterSlots(dw) : dw[k].revealed} = FirstLetterSlots(dw, revealed)

\* C6 (as claimed): on a non-empty list next() advances the index by one,
\* wrapping to 0, and leaves the engine re-initialised for the current target.
C6_NextReinitialises ==
    Len(items) > 0 =>
        \A seed \in RandDraws :
            LET t == useEffect(App, next(App), seed)
            IN  /\ t.index = (index + 1) % Len(items)
                /\ t.picked = <<>>
                /\ t.revealed = 0
                /\ t.status = "idle"
                /\ t.shuffled = FreshBank(NormTargetOf(t.items, t.index), seed)

\* whether onTileClick accepts a click in state s
Accepts(s) == s.status = "idle" /\ Len(s.picked) + s.revealed < SlotCount(s)

\* the states that k accepted picks lead to from s
RECURSIVE AfterPicks(_, _)
AfterPicks(s, k) ==
    IF k = 0 THEN {s}
    ELSE UNION {AfterPicks(onTileClick(s, i), k - 1) :
                   i \in {j \in PickChoices(s.shuffled) : Accepts(s)}}

\* the state that k calls of removeLast lead to from s
RECURSIVE AfterRemoves(_, _)
AfterRemoves(s, k) == IF k = 0 THEN s ELSE AfterRemoves(removeLast(s), k - 1)

\* C7: from an Idle state, k accepted picks followed by k removeLast calls leave
\* the bank equal position for position, and the picked stack as long as before.
C7_PickRemoveInverse ==
    status = "idle" =>
        \A k \in 1..MaxRun : \A t \in AfterPicks(App, k) :
            /\ AfterRemoves(t, k).shuffled = shuffled
            /\ Len(AfterRemoves(t, k).picked) = Len(picked)

\* C7 witness: an Idle state, reached after a shuffle, from which two picks are
\* accepted, empty two tiles, and two removeLast calls restore the bank
C7_Witness ==
    /\ status = "idle"
    /\ nShuffles > 0
    /\ \E t \in AfterPicks(App, 2) :
          /\ Cardinality({i \in 1..Len(shuffled) : t.shuffled[i] # shuffled[i]}) = 2
          /\ AfterRemoves(t, 2).shuffled = shuffled

\* C8 (as claimed): only next() and a replacement of the word list lower
\* RevealedCount.
C8_RevealMonotone == [][revealed' >= revealed \/ GoNext \/ Upload \/ ClearSet]_vars

\* C8 (amended): only next(), a replacement of the word list and reset() lower
\* RevealedCount.
C8_RevealMonotoneButReset ==
    [][revealed' >= revealed \/ GoNext \/ Upload \/ ClearSet \/ Reset]_vars

\* C8 witness: a state with a revealed letter in which reset() lowers the count
C8_Witness ==
    /\ revealed > 0
    /\ nShuffles < MaxShuffles
    /\ \E seed \in RandDraws : reset(App, seed).revealed < revealed

\* C9 (as claimed): 0 <= RevealedCount <= number of letter slots of the
\* current target, and hint() changes nothing once they are equal.
C9_RevealBound ==
    /\ 0 <= revealed
    /\ revealed <= SlotCount(App)
    /\ (revealed = SlotCount(App) => hint(App) = App)

\* C11: a click on a bank tile while the status is Correct or Wrong, or when
\* picked.length + revealed equals the letter-slot count, or on an empty tile,
\* removeLast with an empty PickedStack or outside Idle, and hint when
\* RevealedCount equals the letter-slot count, each leave the state unchanged.
C11_NoOps ==
    /\ \A i \in 1..Len(shuffled) :
          (\/ locked
           \/ Len(picked) + revealed = SlotCount(App)
           \/ shuffled[i] = "") => TileButton(App, i) = App
    /\ (picked = <<>> \/ status # "idle") => removeLast(App) = App
    /\ revealed = SlotCount(App) => hint(App) = App

\* C11 witness: a locked state of a puzzle with a picked tile (so an empty bank
\* position) and every letter slot revealed
C11_Witness ==
    /\ HasCurrent(items, index)
    /\ locked
    /\ Len(picked) >= 1
    /\ \E i \in 1..Len(shuffled) : shuffled[i] = ""
    /\ \E i \in 1..Len(shuffled) : shuffled[i] # ""
    /\ revealed = SlotCount(App)

\* the file is read and parsed without an exception, but no item of it has a
\* non-empty normalised key
NoUsableItems(file) == ~ReadThrows(file) /\ Installed(file) = <<>>

\* C12 (as claimed): the ingestion of a file that yields no usable item is
\* rejected: word list, index and store stay as they were.
C12_NeverInstallsEmpty ==
    \A file \in UploadFiles :
        NoUsableItems(file) =>
            /\ onUpload(App, file).items = items
            /\ onUpload(App, file).index = index
            /\ onUpload(App, file).store = store

\* the ingestion of the file fails: JSON.parse or the reading of an element
\* throws, the JSON value is not an array, or the parser finds no word
Fails(file) ==
    \/ ReadThrows(file)
    \/ file.json # NoJson /\ file.json.kind # "array"
    \/ ParsedOf(file) = <<>>

\* C13: a failing ingestion leaves list, index, store and engine state as they
\* were (and no effect runs); a successful one replaces the list, sets the index
\* to 0 and writes that list to the store.
C13_ReplaceOrReject ==
    \A file \in UploadFiles :
        LET t == onUpload(App, file)
        IN  IF Fails(file)
            THEN t = App /\ ~EffectRuns(App, t)
            ELSE /\ t.items = Installed(file)
                 /\ t.index = 0
                 /\ t.store = Stored(t.items)
                 /\ loadItems(t.store) = stringify(t.items)

\* C13 witness: a list installed from a JSON array and written to the store,
\* with a game in progress at a later item, the state the failing files are
\* then read in
C13_Witness ==
    /\ \E file \in UploadFiles :
          /\ file.json # NoJson
          /\ ~Fails(file)
          /\ items = Installed(file)
    /\ store = Stored(items)
    /\ picked # <<>>
    /\ revealed > 0
    /\ \E file \in UploadFiles : ReadThrows(file)
    /\ \E file \in UploadFiles : ~ReadThrows(file) /\ Fails(file)

\* the number of tiles with character c that a bank and a picked stack hold
Held(bank, pk, c) == Count(bank, c) + Count(PickedChars(pk), c)

\* C15 (as claimed): no pick, removeLast, hint, check, shuffle or reset step
\* changes the multiset of the non-empty bank tiles together with the picked
\* characters, which therefore stays that of the bank as generated.
C15_LetterConservation ==
    [][(Click \/ Remove \/ Hint \/ Check \/ Shuffle \/ Reset) =>
          \A c \in (Range(shuffled) \cup Range(shuffled')
                      \cup Range(PickedChars(picked))) \ {""} :
              Held(shuffled', picked', c) = Held(shuffled, picked, c)]_vars

\* C16 (as claimed): len(PickedStack) + RevealedCount never exceeds the number
\* of letter slots of the current target.
C16_FillCount ==
    HasCurrent(items, index) => Len(picked) + revealed <= SlotCount(App)

\* C17 (as claimed): the bank indices of the picked stack are pairwise distinct
\* and each refers to a bank position that holds the empty marker.
C17_BankIndices ==
    /\ \A j, k \in 1..Len(picked) : j # k => picked[j].i # picked[k].i
    /\ \A k \in 1..Len(picked) :
          /\ picked[k].i \in 1..Len(shuffled)
          /\ shuffled[picked[k].i] = ""

\* C18 (as claimed): a step that changes the current target leaves the engine
\* re-initialised: nothing picked, nothing revealed, status Idle and a bank
\* generated for the new target.
C18_ReinitOnTargetChange ==
    [][(/\ HasCurrent(items', index')
        /\ TargetOf(items', index') # TargetOf(items, index)) =>
          /\ picked' = <<>>
          /\ revealed' = 0
          /\ status' = "idle"
          /\ \E seed \in RandDraws :
                shuffled' = FreshBank(NormTargetOf(items', index'), seed)]_vars

\* C19: reset() leaves PickedStack empty, RevealedCount 0 and the status Idle,
\* keeps index, word list and store, and its bank holds exactly the tiles that
\* were non-empty before the call, and no empty marker.
C19_ResetPostcondition ==
    \A seed \in RandDraws :
        LET t == reset(App, seed)
        IN  /\ t.picked = <<>>
            /\ t.revealed = 0
            /\ t.status = "idle"
            /\ t.index = index /\ t.items = items /\ t.store = store
            /\ Len(t.shuffled) = Cardinality({k \in 1..Len(shuffled) : shuffled[k] # ""})
            /\ \A c \in Range(shuffled) \cup Range(t.shuffled) :
                  Count(t.shuffled, c) = IF c = "" THEN 0 ELSE Count(shuffled, c)

\* C19 witness: the state reset() leaves after a pick: the bank of the current
\* puzzle has fewer tiles than were generated, none of them empty
C19_Witness ==
    /\ HasCurrent(items, index)
    /\ nShuffles > 0
    /\ picked = <<>> /\ revealed = 0 /\ status = "idle"
    /\ Len(shuffled) < BankMin
    /\ \A k \in 1..Len(shuffled) : shuffled[k] # ""

----------------------------------------------------------------------------
(* Bank generation on its own: one-word lists of growing length are uploaded *)
(* and the effect generates their banks, for the draws of BankDraws          *)

\* "Great-grandmother's": 19 characters, 17 of them letters
LongWord == <<"G","r","e","a","t","-","g","r","a","n","d","m","o","t","h","e","r","'","s">>

\* the longest prefix of LongWord that is uploaded
MaxTargetLen == 19
\* the draws are 0/59, 7/59, ..., (7 * MaxBankSeed mod 59)/59
MaxBankSeed == 7

BankDraws == {(7 * k) % RandDenom : k \in 0..MaxBankSeed}

\* a text file holding one line, the first n characters of LongWord
OneWordFile(n) ==
    [name |-> <<"w","o","r","d",".","t","x","t">>, json |-> NoJson,
     text |-> SliceTo(LongWord, n)]

BankInit ==
    /\ \E seed \in BankDraws :
          /\ items = Mounted(NoStore, seed).items
          /\ index = Mounted(NoStore, seed).index
          /\ picked = Mounted(NoStore, seed).picked
          /\ shuffled = Mounted(NoStore, seed).shuffled
          /\ status = Mounted(NoStore, seed).status
          /\ revealed = Mounted(NoStore, seed).revealed
          /\ store = Mounted(NoStore, seed).store
    /\ pending = {}
    /\ nShuffles = 0

UploadWord ==
    /\ \E n \in 1..MaxTargetLen : RerenderWith(onUpload(App, OneWordFile(n)), BankDraws)
    /\ UNCHANGED pending

BankNext == UploadWord

BankSpec == BankInit /\ [][BankNext]_vars

\* C10 (as claimed): the generated bank has clamp(len(normalize(target)) + 6,
\* 12, 16) tiles and holds every character of normalize(target), upper-cased,
\* at least as often as the target does.
C10_BankHoldsTarget ==
    HasCurrent(items, index) =>
        LET base == MapSeq(NormTargetOf(items, index), toUpperCase)
        IN  /\ Len(shuffled) = BankSize(Len(base))
            /\ Len(shuffled) \in BankMin..BankMax
            /\ \A c \in Range(base) : Count(base, c) <= Count(shuffled, c)

----------------------------------------------------------------------------
(* Ingestion on its own: generated text files of up to MaxLines lines are     *)
(* uploaded one after the other                                               *)

IngestInit ==
    /\ \E seed \in RandDraws :
          /\ items = Mounted(NoStore, seed).items
          /\ index = Mounted(NoStore, seed).index
          /\ picked = Mounted(NoStore, seed).picked
          /\ shuffled = Mounted(NoStore, seed).shuffled
          /\ status = Mounted(NoStore, seed).status
          /\ revealed = Mounted(NoStore, seed).revealed
          /\ store = Mounted(NoStore, seed).store
    /\ pending = {}
    /\ nShuffles = 0

IngestFile ==
    /\ \E file \in IngestFiles : Rerender(onUpload(App, file))
    /\ UNCHANGED pending

IngestNext == IngestFile

IngestSpec == IngestInit /\ [][IngestNext]_vars

\* the positions of a parsed list that hold the first occurrence of a
\* non-empty normalised key
FirstOccurrences(parsed) ==
    LET keys == [k \in 1..Len(parsed) |-> normalizeWord(parsed[k].word)]
    IN  {k \in 1..Len(parsed) :
            keys[k] # <<>> /\ \A j \in 1..(k - 1) : keys[j] # keys[k]}

\* the m-th smallest element of a set of positions
NthOf(S, m) == CHOOSE k \in S : Cardinality({j \in S : j < k}) = m - 1

\* C14: the installed list is the sequence of the first occurrences of the
\* distinct non-empty normalised keys of the parsed list, in their order, cut
\* to the first 20, each with its word upper-cased and its own hint.
C14_DedupeAndCap ==
    \A file \in IngestFiles :
        LET parsed == ParsedOf(file)
            firsts == FirstOccurrences(parsed)
            t      == onUpload(App, file)
        IN  /\ Len(t.items) = Min(Cardinality(firsts), 20)
            /\ \A m \in 1..Len(t.items) :
                  /\ t.items[m].word = MapSeq(parsed[NthOf(firsts, m)].word, toUpperCase)
                  /\ t.items[m].hint = parsed[NthOf(firsts, m)].hint

\* C14 witness: the list installed from a file of 25 lines with 25 distinct
\* keys, which has 20 items
C14_Witness ==
    /\ Len(items) = 20
    /\ \E file \in IngestFiles :
          /\ Cardinality(FirstOccurrences(ParsedOf(file))) = 25
          /\ items = Installed(file)
          /\ store = Stored(items)

----------------------------------------------------------------------------
(* Asynchronous uploads: onUpload starts a read, reader.onload completes it    *)
(* later, in any order with the other handlers and with other reads           *)

\* the reads that can be in flight together
MaxPending == 2

\* the files read: "ab|first"; two lines "cd" and "Ef" without hint; "-";
\* a malformed JSON text
AsyncFiles ==
    {f \in UploadFiles : f.name \in {<<"o","n","e",".","t","x","t">>,
                                     <<"d","a","s","h",".","t","x","t">>,
                                     <<"b","a","d",".","j","s","o","n">>}}
    \cup {[name |-> <<"b","a","r","e",".","t","x","t">>, json |-> NoJson,
           text |-> <<"c","d","\n","E","f","\n">>]}

\* the store is empty or holds the list of an earlier successful ingestion
AsyncInit ==
    /\ \E st \in {NoStore} \cup {Stored(Installed(f)) :
                      f \in {g \in AsyncFiles : ~ReadThrows(g) /\ ParsedOf(g) # <<>>}} :
       \E seed \in RandDraws :
          /\ items = Mounted(st, seed).items
          /\ index = Mounted(st, seed).index
          /\ picked = Mounted(st, seed).picked
          /\ shuffled = Mounted(st, seed).shuffled
          /\ status = Mounted(st, seed).status
          /\ revealed = Mounted(st, seed).revealed
          /\ store = Mounted(st, seed).store
    /\ pending = {}
    /\ nShuffles = 0

\* onUpload (lines 111-115, 143): the read of the chosen file starts; a file
\* that is being read already is in flight once
StartRead ==
    /\ Cardinality(pending) < MaxPending
    /\ \E file \in AsyncFiles \ pending : pending' = pending \cup {file}
    /\ UNCHANGED <<items, index, picked, shuffled, status, revealed, store, nShuffles>>

\* reader.onload (lines 116-142) of a read in flight
ReadDone ==
    \E file \in pending :
        /\ Rerender(onUpload(App, file))
        /\ pending' = pending \ {file}

AsyncNext ==
    \/ StartRead
    \/ ReadDone
    \/ Click
    \/ Remove
    \/ Check
    \/ Hint
    \/ GoNext
    \/ ClearSet

AsyncSpec == AsyncInit /\ [][AsyncNext]_vars

\* C20: either the store key is absent and the active list is the built-in
\* default set, or the store holds the serialised active list.
C20_StoreMatchesList ==
    \/ store = NoStore /\ items = defaultSet
    \/ store # NoStore /\ store = Stored(items)

\* C20 witness: a read has completed while another is still in flight, a hint
\* was taken since, and the store holds the serialised list, which leaves out
\* the undefined hints of the items
C20_Witness ==
    /\ pending # {}
    /\ store = Stored(items)
    /\ store[1] # items
    /\ Len(items) = 2
    /\ revealed > 0

====
